---------------------------- MODULE Spec2Model ----------------------------
(***************************************************************************)
(* Model of rust/src/api/simple.rs: the MobileConvexClient connection      *)
(* cell (async_once_cell::OnceCell<ConvexClient>), the callers of          *)
(* connected_client(), the subscription background task with its           *)
(* select_biased! loop, the two QuerySubscriber variants and               *)
(* SubscriptionHandle::cancel().                                           *)
(***************************************************************************)
EXTENDS Naturals, Sequences, FiniteSets

\* ------------------------------------------------------------------ bounds
NumCallers == 2      \* concurrent API callers of one client instance
MaxBuilds  == 2      \* connection builds the backend is asked for
MaxEmit    == 2      \* items the backend emits, over all subscriptions

Callers == 1..NumCallers
Builds  == 1..MaxBuilds
\* Two subscriptions: the one a property is about and another one, to see
\* that they do not interfere.
Subs    == {1, 2}

VARIABLES
    \* --- MobileConvexClient ---------------------------------------------
    cell,       \* client: OnceCell<ConvexClient>; 0 = empty, b = connection of build b
    initer,     \* the caller running the cell's init future (0 = nobody)
    builds,     \* builds[b]: the spawned ConvexClientBuilder task of build b
    rtAlive,    \* rt: the tokio runtime is alive (the client was not dropped)
    \* --- callers of the API ---------------------------------------------
    cpc,        \* cpc[c]: where caller c is in its call
    cop,        \* cop[c]: the operation caller c runs ("none" between calls)
    awaiting,   \* awaiting[c]: the build whose JoinHandle c awaits (0 = none)
    cres,       \* cres[c]: what c's last connected_client() returned
    seen,       \* seen[c]: first build that failed while c waited in this call
    installed,  \* history: every connection ever stored in the cell
    \* --- subscriptions --------------------------------------------------
    task,       \* task[s]: state of the background task of subscription s
    kind,       \* kind[s]: subscriber variant, "sync" or "async"
    emitted,    \* emitted[s]: items the backend stream emitted, in order
    ntaken,     \* ntaken[s]: how many of them the loop took from the stream
    sclosed,    \* sclosed[s]: the backend stream ended
    calls,      \* calls[s]: QuerySubscriber calls the loop made, in order
    pending,    \* pending[s]: detached deliveries (indices of calls[s]) not yet run
    ran,        \* ran[s]: callbacks that ran, in the order they ran
    \* --- SubscriptionHandle ---------------------------------------------
    sender,     \* sender[s]: cancel_sender holds Some(sender)
    signal,     \* signal[s]: a value was enqueued on the oneshot channel
    sends,      \* sends[s]: how many times sender.send(()) was executed
    guard,      \* guard[s]: "free", or what take() gave the cancel() call that
                \* holds the cancel_sender mutex: "some" or "none"; "dropped"
                \* once the handle, and the mutex with it, was destroyed
    panicked,   \* panicked[s]: a cancel() call on s panicked in unwrap()
    \* --- query / mutation / action / subscribe / set_auth ---------------
    cargs,      \* cargs[c]: the args: HashMap<String, String> of c's call
    ninv,       \* ninv[c]: how often c's call invoked its backend verb
    cctx,       \* cctx[c]: where the future of the invoked verb is polled
    bres,       \* bres[c]: what the backend verb answered to c's call
    ret         \* ret[c]: what c's last API call returned to its caller

connVars == <<cell, initer, builds, rtAlive, installed>>
callVars == <<cpc, cop, awaiting, cres, seen>>
subVars  == <<task, kind, emitted, ntaken, sclosed, calls, pending, ran>>
hdlVars  == <<sender, signal, sends, guard, panicked>>
cmdVars  == <<cargs, ninv, cctx, bres, ret>>
vars     == <<connVars, callVars, subVars, hdlVars, cmdVars>>

\* ------------------------------------------------------------- data types
\* Option<String>
None == <<>>
Some(x) == <<x>>

\* serde_json::to_string(&serde_json::Value::from(v)): the JSON text of v
Json(v) == <<"json", v>>

\* convex::FunctionResult: Value(v) | ErrorMessage(m) | ConvexError{message, data}
FnValue(v)          == [t |-> "Value",        m |-> 0, d |-> v]
FnErrorMessage(m)   == [t |-> "ErrorMessage", m |-> m, d |-> 0]
FnConvexError(m, d) == [t |-> "ConvexError",  m |-> m, d |-> d]

\* The items the backend can emit as its k-th item: payloads carry k, so that
\* a skipped, repeated or reordered delivery is visible.
ItemsAt(k) == {FnValue(k), FnErrorMessage(k), FnConvexError(k, k)}

\* anyhow::Result<ConvexClient> as seen by a caller
NoResult   == [r |-> "None", b |-> 0]
Ok(b)      == [r |-> "Ok", b |-> b]
Err(b)     == [r |-> "Err", b |-> b]
Abandoned  == [r |-> "Abandoned", b |-> 0]

Ops == {"set_auth", "subscribe"}

NoBuild == [st |-> "unspawned", by |-> 0]

\* -------------------------------------------------------------- arguments
\* args: HashMap<String, String>, each value a JSON text. The texts used:
\*   1  and  "x"          valid JSON, valid Convex values
\*   {                    not JSON
\*   {"$integer":1}       JSON, but not a Convex value ($integer wants a string)
NoArgs        == <<>>
GoodArgs      == [a |-> "1", b |-> "\"x\""]
BadJsonArgs   == [a |-> "{"]
BadConvexArgs == [a |-> "1", b |-> "{\"$integer\":1}"]
Arguments     == {GoodArgs, BadJsonArgs, BadConvexArgs}

\* serde_json::from_str::<serde_json::Value>(&v)
FromStr(v) ==
    IF v = "1" THEN [ok |-> TRUE, j |-> "Number", x |-> "1"]
    ELSE IF v = "\"x\"" THEN [ok |-> TRUE, j |-> "String", x |-> "x"]
    ELSE IF v = "{\"$integer\":1}" THEN [ok |-> TRUE, j |-> "Object", x |-> "$integer"]
    ELSE [ok |-> FALSE, j |-> "Error", x |-> ""]

\* convex::Value::try_from(serde_json::Value)
TryFrom(json) ==
    IF json.j = "Number" THEN [ok |-> TRUE, ty |-> "Float64", x |-> json.x]
    ELSE IF json.j = "String" THEN [ok |-> TRUE, ty |-> "String", x |-> json.x]
    ELSE [ok |-> FALSE, ty |-> "Error", x |-> ""]

\* One entry of the map closure: both .expect() calls pass.
EntryDecodes(v) == FromStr(v).ok /\ TryFrom(FromStr(v)).ok

\* Variant: a decoder that leaves out the entries it cannot decode.
parse_json_args_lenient(raw_args) ==
    LET good == {k \in DOMAIN raw_args : EntryDecodes(raw_args[k])} IN
    [panic |-> FALSE, args |-> [k \in good |-> TryFrom(FromStr(raw_args[k]))]]

\* parse_json_args: the decoded BTreeMap<String, Value>, or a panic in
\* whatever context evaluates it (.expect("Invalid JSON data from FFI"),
\* .expect("Invalid Convex data from FFI")).
parse_json_args(raw_args) ==
    IF \A k \in DOMAIN raw_args : EntryDecodes(raw_args[k])
    THEN [panic |-> FALSE,
          args |-> [k \in DOMAIN raw_args |-> TryFrom(FromStr(raw_args[k]))]]
    ELSE [panic |-> TRUE, args |-> <<>>]

\* ------------------------------------------------------------ API results
\* Result<String, ClientError>, Result<Arc<SubscriptionHandle>, ClientError>
\* and Result<(), ClientError> as the caller sees them, plus the panic that
\* unwinds into the caller instead of a result.
NoRet             == [k |-> "None",          msg |-> 0, data |-> None]
OkString(str)     == [k |-> "Ok",            msg |-> 0, data |-> Some(str)]
OkHandle          == [k |-> "Handle",        msg |-> 0, data |-> None]
OkUnit            == [k |-> "Unit",          msg |-> 0, data |-> None]
InternalError     == [k |-> "InternalError", msg |-> 0, data |-> None]
ConvexError(data) == [k |-> "ConvexError",   msg |-> 0, data |-> Some(data)]
ServerError(msg)  == [k |-> "ServerError",   msg |-> msg, data |-> None]
Panicked          == [k |-> "Panic",         msg |-> 0, data |-> None]

\* anyhow::Result<FunctionResult>: the backend's answer to query, mutation
\* or action; Err is a failure of the transport or of the client library.
NoAnswer       == [a |-> "none", v |-> FnValue(0)]
Answer(result) == [a |-> "ok",   v |-> result]
AnswerErr      == [a |-> "err",  v |-> FnValue(0)]
Answers == {Answer(FnValue(1)), Answer(FnErrorMessage(2)),
            Answer(FnConvexError(3, 4)), AnswerErr}

\* Variant: every backend error reported as a server error.
handle_direct_function_result_lossy(result) ==
    IF result.t = "Value" THEN OkString(Json(result.d))
    ELSE ServerError(result.m)

\* handle_direct_function_result
handle_direct_function_result(result) ==
    IF result.t = "Value" THEN OkString(Json(result.d))
    ELSE IF result.t = "ConvexError" THEN ConvexError(Json(result.d))
    ELSE ServerError(result.m)

CmdOps == {"query", "mutation", "action"}

\* Where the future of a backend verb is polled: mutation, action and
\* set_auth are wrapped in self.rt.spawn(...); query and subscribe are
\* awaited in the body of the async fn, that is in the caller's own task.
VerbContext(op) ==
    IF op \in {"mutation", "action", "set_auth"} THEN "rt" ELSE "caller"

\* What a panic of parse_json_args becomes for the caller: evaluated in the
\* caller's own future it unwinds into the caller; evaluated inside a
\* spawned task it makes the JoinHandle yield a JoinError, which `?` turns
\* into ClientError::InternalError.
ArgPanicResult(ctx) == IF ctx = "rt" THEN InternalError ELSE Panicked

\* ------------------------------------------------------------------- Init
Init ==
    /\ cell = 0
    /\ initer = 0
    /\ builds = [b \in Builds |-> NoBuild]
    /\ rtAlive = TRUE
    /\ installed = {}
    /\ cpc = [c \in Callers |-> "idle"]
    /\ cop = [c \in Callers |-> "none"]
    /\ awaiting = [c \in Callers |-> 0]
    /\ cres = [c \in Callers |-> NoResult]
    /\ seen = [c \in Callers |-> 0]
    /\ task = [s \in Subs |-> "None"]
    /\ kind = [s \in Subs |-> "none"]
    /\ emitted = [s \in Subs |-> <<>>]
    /\ ntaken = [s \in Subs |-> 0]
    /\ sclosed = [s \in Subs |-> FALSE]
    /\ calls = [s \in Subs |-> <<>>]
    /\ pending = [s \in Subs |-> {}]
    /\ ran = [s \in Subs |-> <<>>]
    /\ sender = [s \in Subs |-> FALSE]
    /\ signal = [s \in Subs |-> FALSE]
    /\ sends = [s \in Subs |-> 0]
    /\ guard = [s \in Subs |-> "free"]
    /\ panicked = [s \in Subs |-> FALSE]
    /\ cargs = [c \in Callers |-> NoArgs]
    /\ ninv = [c \in Callers |-> 0]
    /\ cctx = [c \in Callers |-> "none"]
    /\ bres = [c \in Callers |-> NoAnswer]
    /\ ret = [c \in Callers |-> NoRet]

\* ------------------------------------------------------ connected_client
NumSpawned == Cardinality({b \in Builds : builds[b].st # "unspawned"})

\* A caller enters query/mutation/action/subscribe/set_auth; each starts with
\* self.connected_client().await.
Call(c, op, args) ==
    /\ rtAlive
    /\ cpc[c] = "idle"
    /\ cpc' = [cpc EXCEPT ![c] = "waiting"]
    /\ cop' = [cop EXCEPT ![c] = op]
    /\ cres' = [cres EXCEPT ![c] = NoResult]
    /\ seen' = [seen EXCEPT ![c] = 0]
    /\ cargs' = [cargs EXCEPT ![c] = args]
    /\ ninv' = [ninv EXCEPT ![c] = 0]
    /\ bres' = [bres EXCEPT ![c] = NoAnswer]
    /\ ret' = [ret EXCEPT ![c] = NoRet]
    /\ UNCHANGED <<connVars, awaiting, subVars, hdlVars, cctx>>

\* A caller inside get_or_try_init that does not run the init future: it has
\* just entered ("waiting") or was parked behind a running init future.
InGet(c) == cpc[c] \in {"waiting", "parked"}

\* get_or_try_init, fast path: the cell holds a value; .map(|r| r.clone()).
GetReady(c) ==
    /\ InGet(c)
    /\ cell # 0
    /\ cpc' = [cpc EXCEPT ![c] = "connected"]
    /\ cres' = [cres EXCEPT ![c] = Ok(cell)]
    /\ UNCHANGED <<connVars, cop, awaiting, seen, subVars, hdlVars, cmdVars>>

\* Variant: a cell that lets every caller that finds it empty run its own
\* init future, with no exclusion between them.
MayInitNoLock(c) == cell = 0

\* Whether a caller polling get_or_try_init may start running its own init
\* future: the cell is empty and no other init future is running.
MayInit(c) == cell = 0 /\ initer = 0

\* get_or_try_init, slow path: the caller becomes the initialiser and its
\* init future spawns the build on the runtime.
StartBuild(c) ==
    /\ InGet(c)
    /\ MayInit(c)
    /\ NumSpawned < MaxBuilds
    /\ LET b == NumSpawned + 1 IN
        /\ initer' = c
        /\ builds' = [builds EXCEPT ![b] = [st |-> "running", by |-> c]]
        /\ awaiting' = [awaiting EXCEPT ![c] = b]
    /\ cpc' = [cpc EXCEPT ![c] = "building"]
    /\ UNCHANGED <<cell, rtAlive, installed, cop, cres, seen, subVars, hdlVars, cmdVars>>

\* get_or_try_init finds another caller's init future running: the caller is
\* queued and sleeps until that future completes, fails or is dropped.
Park(c) ==
    /\ cpc[c] = "waiting"
    /\ cell = 0
    /\ initer # 0
    /\ cpc' = [cpc EXCEPT ![c] = "parked"]
    /\ UNCHANGED <<connVars, cop, awaiting, cres, seen, subVars, hdlVars, cmdVars>>

\* The spawned task: ConvexClientBuilder::new(url).with_client_id(id).build().
\* It runs on the runtime whether or not anybody still awaits it.
BuildFinish(b, ok) ==
    /\ rtAlive
    /\ builds[b].st = "running"
    /\ builds' = [builds EXCEPT ![b].st = IF ok THEN "ok" ELSE "err"]
    /\ UNCHANGED <<cell, initer, rtAlive, installed, callVars, subVars, hdlVars, cmdVars>>

\* What the cell holds after the init future returned Ok(connection b).
CellStore(old, b) == b

\* Variant: a shared in-flight build whose failure is handed to every caller
\* parked on it as well.
FailureRecipientsShared(c) == {c} \cup {x \in Callers : cpc[x] = "parked"}

\* The callers whose call returns Err when the init future of caller c failed.
FailureRecipients(c) == {c}

\* Variant: a failed init future that keeps the initialiser role (a poisoned
\* cell).
IniterAfterFailurePoisoned(c) == c

\* The initialiser after its init future returned Err: the cell stays empty
\* and the next waiter may run its own init future.
IniterAfterFailure(c) == 0

\* The initialiser's JoinHandle resolves: `.await?` inside the init future,
\* then get_or_try_init stores the value or hands the error back.
InitComplete(c) ==
    /\ cpc[c] = "building"
    /\ LET b == awaiting[c] IN
        /\ builds[b].st \in {"ok", "err"}
        /\ IF builds[b].st = "ok"
           THEN /\ cell' = CellStore(cell, b)
                /\ installed' = installed \cup {cell'}
                /\ initer' = 0
                /\ cpc' = [cpc EXCEPT ![c] = "connected"]
                /\ cres' = [cres EXCEPT ![c] = Ok(cell')]
                /\ seen' = seen
           ELSE /\ cell' = cell
                /\ installed' = installed
                /\ initer' = IniterAfterFailure(c)
                /\ cpc' = [x \in Callers |->
                             IF x \in FailureRecipients(c) THEN "idle" ELSE cpc[x]]
                /\ cres' = [x \in Callers |->
                             IF x \in FailureRecipients(c) THEN Err(b) ELSE cres[x]]
                /\ seen' = [x \in Callers |->
                             IF x # c /\ cpc[x] = "parked" /\ seen[x] = 0
                             THEN b ELSE seen[x]]
    /\ cop' = [x \in Callers |-> IF cpc'[x] = "idle" THEN "none" ELSE cop[x]]
    /\ cargs' = [x \in Callers |-> IF cpc'[x] = "idle" THEN NoArgs ELSE cargs[x]]
    \* self.connected_client().await? : the error is the call's result
    /\ ret' = [x \in Callers |->
                 IF cpc'[x] = "idle" /\ cpc[x] # "idle" THEN InternalError ELSE ret[x]]
    /\ awaiting' = [awaiting EXCEPT ![c] = 0]
    /\ UNCHANGED <<builds, rtAlive, subVars, hdlVars, ninv, cctx, bres>>

\* The caller's future is dropped before connected_client() returned. The
\* init future goes with it, the spawned build does not (a dropped JoinHandle
\* detaches the task).
Abandon(c) ==
    /\ cpc[c] \in {"waiting", "parked", "building"}
    /\ cpc' = [cpc EXCEPT ![c] = "idle"]
    /\ cres' = [cres EXCEPT ![c] = Abandoned]
    /\ initer' = IF initer = c THEN 0 ELSE initer
    /\ cop' = [cop EXCEPT ![c] = "none"]
    /\ cargs' = [cargs EXCEPT ![c] = NoArgs]
    /\ awaiting' = [awaiting EXCEPT ![c] = 0]
    /\ UNCHANGED <<cell, builds, rtAlive, installed, seen, subVars, hdlVars,
                   ninv, cctx, bres, ret>>

\* set_auth after connected_client(): the call is spawned on the runtime and
\* awaited; the caller returns.
SetAuthDone(c) ==
    /\ cpc[c] = "connected"
    /\ cop[c] = "set_auth"
    /\ cpc' = [cpc EXCEPT ![c] = "idle"]
    /\ cop' = [cop EXCEPT ![c] = "none"]
    /\ cargs' = [cargs EXCEPT ![c] = NoArgs]
    /\ ninv' = [ninv EXCEPT ![c] = @ + 1]
    /\ ret' = [ret EXCEPT ![c] = OkUnit]
    /\ UNCHANGED <<connVars, awaiting, cres, seen, subVars, hdlVars, cctx, bres>>

\* --------------------------------------------------- internal_subscribe
FreeSubs == {s \in Subs : task[s] = "None"}

\* subscribe after connected_client(): client.subscribe(name, args).await?
\* either fails (the error is returned, nothing is spawned) or yields the
\* backend stream; then the oneshot channel is made, the loop is spawned on
\* the runtime and the handle wrapping the sender is returned.
SubscribeOpen(c, ok, k) ==
    /\ cpc[c] = "connected"
    /\ cop[c] = "subscribe"
    /\ cpc' = [cpc EXCEPT ![c] = "idle"]
    /\ IF parse_json_args(cargs[c]).panic
       THEN \* the argument of client.subscribe(..) panics before the call
            /\ ~ok
            /\ ret' = [ret EXCEPT ![c] = ArgPanicResult(VerbContext("subscribe"))]
            /\ UNCHANGED <<task, kind, sender, ninv>>
       ELSE /\ ninv' = [ninv EXCEPT ![c] = @ + 1]
            /\ IF ok
               THEN /\ FreeSubs # {}
                    /\ LET s == CHOOSE x \in FreeSubs : \A y \in FreeSubs : x <= y IN
                        /\ task' = [task EXCEPT ![s] = "Running"]
                        /\ kind' = [kind EXCEPT ![s] = k]
                        /\ sender' = [sender EXCEPT ![s] = TRUE]
                    /\ ret' = [ret EXCEPT ![c] = OkHandle]
               ELSE /\ ret' = [ret EXCEPT ![c] = InternalError]
                    /\ UNCHANGED <<task, kind, sender>>
    /\ cop' = [cop EXCEPT ![c] = "none"]
    /\ cargs' = [cargs EXCEPT ![c] = NoArgs]
    /\ UNCHANGED <<connVars, awaiting, cres, seen, emitted, ntaken, sclosed,
                   calls, pending, ran, signal, sends, guard, panicked, cctx, bres>>

\* ------------------------------------------- query / mutation / action
\* After connected_client(): the arguments are decoded and the backend verb
\* is invoked with them, for query in the body of the async fn, for mutation
\* and action inside the task spawned on the runtime. A panic of the
\* decoder comes before the verb and ends the call.
VerbInvoke(c) ==
    /\ cpc[c] = "connected"
    /\ cop[c] \in CmdOps
    /\ LET ctx == VerbContext(cop[c]) IN
       IF parse_json_args(cargs[c]).panic
       THEN /\ cpc' = [cpc EXCEPT ![c] = "idle"]
            /\ cop' = [cop EXCEPT ![c] = "none"]
            /\ cargs' = [cargs EXCEPT ![c] = NoArgs]
            /\ ret' = [ret EXCEPT ![c] = ArgPanicResult(ctx)]
            /\ UNCHANGED <<ninv, cctx>>
       ELSE /\ cpc' = [cpc EXCEPT ![c] = "inflight"]
            /\ ninv' = [ninv EXCEPT ![c] = @ + 1]
            /\ cctx' = [cctx EXCEPT ![c] = ctx]
            /\ UNCHANGED <<cop, cargs, ret>>
    /\ UNCHANGED <<connVars, awaiting, cres, seen, subVars, hdlVars, bres>>

\* Variant: a call that goes back to invoke the verb again after a failure
\* of the transport.
AfterAnswerRetry(answer) == IF answer.a = "err" THEN "connected" ELSE "idle"

\* Where the call stands after the verb's future resolved: `.await?` and
\* handle_direct_function_result both return to the caller.
AfterAnswer(answer) == "idle"

\* The backend answers; `?` turns a failure into InternalError, a
\* FunctionResult goes through handle_direct_function_result.
VerbReturn(c, answer) ==
    /\ cpc[c] = "inflight"
    /\ answer \in Answers
    /\ bres' = [bres EXCEPT ![c] = answer]
    /\ cctx' = [cctx EXCEPT ![c] = "none"]
    /\ cpc' = [cpc EXCEPT ![c] = AfterAnswer(answer)]
    /\ IF cpc'[c] = "idle"
       THEN /\ ret' = [ret EXCEPT ![c] =
                         IF answer.a = "err" THEN InternalError
                         ELSE handle_direct_function_result(answer.v)]
            /\ cop' = [cop EXCEPT ![c] = "none"]
            /\ cargs' = [cargs EXCEPT ![c] = NoArgs]
       ELSE UNCHANGED <<ret, cop, cargs>>
    /\ UNCHANGED <<connVars, awaiting, cres, seen, subVars, hdlVars, ninv>>

\* Variant: a cancel branch without `break`: the loop goes on iterating.
LoopRunningNoBreak(s) == task[s] \in {"Running", "Canceled"}

\* The loop of the background task is still iterating: it has neither hit
\* `break` nor panicked nor been dropped with the runtime.
LoopRunning(s) == task[s] = "Running"

\* ---------------------------------------------------- the backend stream
RECURSIVE SumLen(_, _)
SumLen(f, S) ==
    IF S = {} THEN 0
    ELSE LET x == CHOOSE y \in S : TRUE IN Len(f[x]) + SumLen(f, S \ {x})

TotalEmitted == SumLen(emitted, Subs)

\* The backend pushes the next result of the reactive query; the stream is
\* owned by the loop and lives as long as it.
Emit(s, item) ==
    /\ LoopRunning(s)
    /\ ~sclosed[s]
    /\ TotalEmitted < MaxEmit
    /\ item \in ItemsAt(Len(emitted[s]) + 1)
    /\ emitted' = [emitted EXCEPT ![s] = Append(@, item)]
    /\ UNCHANGED <<connVars, callVars, task, kind, ntaken, sclosed, calls, pending,
                   ran, hdlVars, cmdVars>>

\* Whatever result the backend pushes next.
EmitAny(s) == \E item \in ItemsAt(Len(emitted[s]) + 1) : Emit(s, item)

\* The underlying connection is dropped: the stream ends.
CloseStream(s) ==
    /\ LoopRunning(s)
    /\ ~sclosed[s]
    /\ sclosed' = [sclosed EXCEPT ![s] = TRUE]
    /\ UNCHANGED <<connVars, callVars, task, kind, emitted, ntaken, calls, pending,
                   ran, hdlVars, cmdVars>>

\* ------------------------------------------------- the background task
\* The QuerySubscriber call the loop makes for one stream item: on_update
\* has the value as its only argument (no message), on_error a message and
\* an optional value.
OnUpdate(value)         == [op |-> "on_update", msg |-> 0, val |-> Some(value)]
OnError(message, value) == [op |-> "on_error", msg |-> message, val |-> value]

Deliver(item) ==
    IF item.t = "Value" THEN OnUpdate(Json(item.d))
    ELSE IF item.t = "ErrorMessage" THEN OnError(item.m, None)
    ELSE OnError(item.m, Some(Json(item.d)))

\* Variant: a receiver that only resolves when a value was sent.
CancelReadySentOnly(s) == signal[s]

\* Whether cancel_fut is ready: a value was sent, or the sender was dropped
\* unsent (the handle was destroyed with the sender still in its slot), which
\* resolves the receiver with Err(Canceled); `_ = cancel_fut` matches both.
CancelReady(s) == signal[s] \/ (guard[s] = "dropped" /\ sends[s] = 0)

\* Variant: a loop that awaits each detached delivery before it goes on.
MayTakeNextAwaits(s) == pending[s] = {}

\* Whether the loop may go on to its next iteration: on_update/on_error
\* return as soon as the callback ran (CallbackSubscriber) or as soon as
\* tokio::spawn queued its future (CallbackSubscriberDartFn), whose
\* JoinHandle is dropped; the loop awaits no delivery.
MayTakeNext(s) == TRUE

\* Variant: a loop that polls the cancellation receiver first.
SelectCancelFirst(s) ==
    IF signal[s] THEN "cancel"
    ELSE IF ntaken[s] < Len(emitted[s]) THEN "item"
    ELSE IF sclosed[s] THEN "closed"
    ELSE "pending"

\* Variant: a loop that only polls the stream.
SelectNoCancel(s) ==
    IF ntaken[s] < Len(emitted[s]) THEN "item"
    ELSE IF sclosed[s] THEN "closed"
    ELSE "pending"

\* One poll of select_biased!: the stream branch is polled first, the
\* cancellation receiver only when the stream is pending.
Select(s) ==
    IF ntaken[s] < Len(emitted[s]) THEN "item"
    ELSE IF sclosed[s] THEN "closed"
    ELSE IF CancelReady(s) THEN "cancel"
    ELSE "pending"

\* Variant: a stream that yields its latest item instead of its oldest.
NextItemLatest(s) == emitted[s][Len(emitted[s])]

\* The item subscription.next() yields: the oldest one not yet taken.
NextItem(s) == emitted[s][ntaken[s] + 1]

\* Variant: error arms that end the task.
AfterItemErrorsFatal(t) == IF t = "Value" THEN "Running" ELSE "Fatal"

\* The state of the task after it handled an item of the given kind: every
\* match arm falls through to the next iteration.
AfterItem(t) == "Running"

\* Variant: end of stream handled as an ordinary exit of the loop.
AfterStreamEndQuiet == "Canceled"

\* The state of the task after subscription.next() gave None:
\* expect("Client dropped prematurely") panics inside the spawned task.
AfterStreamEnd == "Fatal"

\* Variant: the end of the stream reported to the subscriber as an error.
StreamEndCallsReported == <<OnError(0, None)>>

\* The calls made for a stream end: none.
StreamEndCalls == <<>>

\* new_val = subscription.next() => match new_val { ... }
TaskDeliver(s) ==
    /\ rtAlive
    /\ LoopRunning(s)
    /\ MayTakeNext(s)
    /\ Select(s) = "item"
    /\ LET item == NextItem(s)
           call == Deliver(item)
       IN /\ ntaken' = [ntaken EXCEPT ![s] = @ + 1]
          /\ calls' = [calls EXCEPT ![s] = Append(@, call)]
          /\ IF kind[s] = "sync"
             THEN \* CallbackSubscriber: the callback runs inside the call
                  /\ ran' = [ran EXCEPT ![s] = Append(@, call)]
                  /\ pending' = pending
             ELSE \* CallbackSubscriberDartFn: tokio::spawn of the future
                  /\ pending' = [pending EXCEPT ![s] = @ \cup {Len(calls[s]) + 1}]
                  /\ ran' = ran
          /\ task' = [task EXCEPT ![s] = AfterItem(item.t)]
    /\ UNCHANGED <<connVars, callVars, kind, emitted, sclosed, hdlVars, cmdVars>>

\* new_val.expect("Client dropped prematurely") on a closed stream.
TaskStreamEnd(s) ==
    /\ rtAlive
    /\ LoopRunning(s)
    /\ MayTakeNext(s)
    /\ Select(s) = "closed"
    /\ task' = [task EXCEPT ![s] = AfterStreamEnd]
    /\ calls' = [calls EXCEPT ![s] = @ \o StreamEndCalls]
    /\ ran' = [ran EXCEPT ![s] = IF kind[s] = "sync" THEN @ \o StreamEndCalls ELSE @]
    /\ pending' = [pending EXCEPT ![s] =
                      IF kind[s] = "sync" THEN @
                      ELSE @ \cup (Len(calls[s]) + 1 .. Len(calls'[s]))]
    /\ UNCHANGED <<connVars, callVars, kind, emitted, ntaken, sclosed, hdlVars, cmdVars>>

\* _ = cancel_fut => break
TaskCancel(s) ==
    /\ rtAlive
    /\ LoopRunning(s)
    /\ MayTakeNext(s)
    /\ Select(s) = "cancel"
    /\ task' = [task EXCEPT ![s] = "Canceled"]
    /\ UNCHANGED <<connVars, callVars, kind, emitted, ntaken, sclosed, calls,
                   pending, ran, hdlVars, cmdVars>>

\* A detached delivery of CallbackSubscriberDartFn runs its callback.
DeliveryRun(s, i) ==
    /\ i \in pending[s]
    /\ ran' = [ran EXCEPT ![s] = Append(@, calls[s][i])]
    /\ pending' = [pending EXCEPT ![s] = @ \ {i}]
    /\ UNCHANGED <<connVars, callVars, task, kind, emitted, ntaken, sclosed, calls,
                   hdlVars, cmdVars>>

\* ------------------------------------------------ SubscriptionHandle::cancel
\* Variant: reading the sender without taking it out of the slot.
AfterTakeKeeps(old) == old

\* What cancel_sender holds after .take().
AfterTake(old) == FALSE

\* Whether sender.send(()) finds the receiver alive: the receiver lives in
\* the background task and is dropped when the task ends.
ReceiverAlive(s) == task[s] = "Running"

\* self.cancel_sender.lock().take(), by a cancel() call on any thread: the
\* call gets the mutex (other calls on this handle block until the guard is
\* dropped) and takes what the slot holds.
CancelLock(s) ==
    /\ kind[s] # "none"
    /\ guard[s] = "free"
    /\ guard' = [guard EXCEPT ![s] = IF sender[s] THEN "some" ELSE "none"]
    /\ sender' = [sender EXCEPT ![s] = AfterTake(@)]
    /\ UNCHANGED <<connVars, callVars, subVars, signal, sends, panicked, cmdVars>>

\* if let Some(sender) = ... { sender.send(()).unwrap(); }, then the guard is
\* dropped (also when unwrap() unwinds).
CancelSend(s) ==
    /\ guard[s] \in {"some", "none"}
    /\ IF guard[s] = "some"
       THEN /\ sends' = [sends EXCEPT ![s] = @ + 1]
            /\ IF ReceiverAlive(s)
               THEN /\ signal' = [signal EXCEPT ![s] = TRUE]
                    /\ panicked' = panicked
               ELSE /\ signal' = signal
                    /\ panicked' = [panicked EXCEPT ![s] = TRUE]
       ELSE UNCHANGED <<sends, signal, panicked>>
    /\ guard' = [guard EXCEPT ![s] = "free"]
    /\ UNCHANGED <<connVars, callVars, subVars, sender, cmdVars>>

\* The last Arc<SubscriptionHandle> is dropped (no cancel() call borrows
\* it): the mutex is destroyed with what its slot holds, so a sender that
\* was never taken is dropped unsent.
HandleDrop(s) ==
    /\ kind[s] # "none"
    /\ guard[s] = "free"
    /\ guard' = [guard EXCEPT ![s] = "dropped"]
    /\ sender' = [sender EXCEPT ![s] = FALSE]
    /\ UNCHANGED <<connVars, callVars, subVars, signal, sends, panicked, cmdVars>>

\* ------------------------------------------------------- client dropped
\* The MobileConvexClient is destroyed (no call borrows it): the runtime is
\* shut down and its tasks are dropped at their await points.
Shutdown ==
    /\ rtAlive
    /\ \A c \in Callers : cpc[c] = "idle"
    /\ rtAlive' = FALSE
    /\ task' = [s \in Subs |-> IF task[s] = "Running" THEN "Aborted" ELSE task[s]]
    /\ builds' = [b \in Builds |->
                    IF builds[b].st = "running"
                    THEN [builds[b] EXCEPT !.st = "dropped"] ELSE builds[b]]
    /\ UNCHANGED <<cell, initer, installed, callVars, kind, emitted, ntaken,
                   sclosed, calls, pending, ran, hdlVars, cmdVars>>

\* ------------------------------------------------------------------ Next
\* The connection manager and the callers of the API.
NextConn ==
    \/ \E c \in Callers, op \in Ops :
          Call(c, op, IF op = "set_auth" THEN NoArgs ELSE GoodArgs)
    \/ \E c \in Callers : GetReady(c)
    \/ \E c \in Callers : StartBuild(c)
    \/ \E c \in Callers : Park(c)
    \/ \E b \in Builds, ok \in BOOLEAN : BuildFinish(b, ok)
    \/ \E c \in Callers : InitComplete(c)
    \/ \E c \in Callers : Abandon(c)
    \/ \E c \in Callers : SetAuthDone(c)
    \/ \E c \in Callers : SubscribeOpen(c, TRUE, "async")
    \/ Shutdown

\* The subscription engine of a live client: backend streams, background
\* tasks, detached deliveries and cancel() calls.
NextSub ==
    \/ \E s \in Subs : EmitAny(s)
    \/ \E s \in Subs : CloseStream(s)
    \/ \E s \in Subs : TaskDeliver(s)
    \/ \E s \in Subs : TaskStreamEnd(s)
    \/ \E s \in Subs : TaskCancel(s)
    \/ \E s \in Subs, i \in 1..MaxEmit : DeliveryRun(s, i)
    \/ \E s \in Subs : CancelLock(s)
    \/ \E s \in Subs : CancelSend(s)

\* The command executor: calls of query, mutation, action and subscribe
\* with any arguments, from connecting to the result.
NextCmd ==
    \/ \E op \in CmdOps \cup {"subscribe"}, args \in Arguments : Call(1, op, args)
    \/ \E c \in Callers \ {1} : Call(c, "set_auth", NoArgs)
    \/ \E c \in Callers : SetAuthDone(c)
    \/ \E c \in Callers : GetReady(c)
    \/ \E c \in Callers : StartBuild(c)
    \/ \E c \in Callers : Park(c)
    \/ \E b \in Builds, ok \in BOOLEAN : BuildFinish(b, ok)
    \/ \E c \in Callers : InitComplete(c)
    \/ \E c \in Callers : VerbInvoke(c)
    \/ \E c \in Callers, answer \in Answers : VerbReturn(c, answer)
    \/ \E c \in Callers, ok \in BOOLEAN : SubscribeOpen(c, ok, "async")

\* subscribe() from the call to the deliveries: one caller subscribes, on a
\* client that still has to connect, and the subscriptions it opens run.
NextOpen ==
    \/ \E args \in Arguments : Call(1, "subscribe", args)
    \/ \E c \in Callers : GetReady(c)
    \/ \E c \in Callers : StartBuild(c)
    \/ \E b \in Builds, ok \in BOOLEAN : BuildFinish(b, ok)
    \/ \E c \in Callers : InitComplete(c)
    \/ \E c \in Callers, ok \in BOOLEAN : SubscribeOpen(c, ok, "async")
    \/ \E s \in Subs : EmitAny(s)
    \/ \E s \in Subs : CloseStream(s)
    \/ \E s \in Subs : TaskDeliver(s)
    \/ \E s \in Subs : TaskStreamEnd(s)
    \/ \E s \in Subs, i \in 1..MaxEmit : DeliveryRun(s, i)

Next ==
    \/ NextConn
    \/ NextSub
    \/ NextCmd
    \/ NextOpen
    \/ \E c \in Callers, ok \in BOOLEAN, k \in {"sync", "async"} : SubscribeOpen(c, ok, k)
    \/ \E s \in Subs : HandleDrop(s)

\* The whole client.
Spec == Init /\ [][Next]_vars

\* The connection manager with its callers, up to the opening of
\* subscriptions (the backend opens each, the streams stay silent and nobody
\* cancels).
SpecConn == Init /\ [][NextConn]_vars

\* Subscribing, from the call to the deliveries.
SpecOpen == Init /\ [][NextOpen]_vars

\* The command executor on a client that still has to connect: caller 1
\* issues the commands, the other callers compete with it for the connection;
\* every call is awaited to its end.
SpecCmd == Init /\ [][NextCmd]_vars

\* The states right after the callers' subscribe() calls returned their
\* handles: build 1 connected the client, every subscription has its task
\* running with a subscriber of either variant, every caller is back idle.
InitSub ==
    /\ cell = 1
    /\ initer = 0
    /\ builds = [b \in Builds |-> IF b = 1 THEN [st |-> "ok", by |-> 1] ELSE NoBuild]
    /\ rtAlive = TRUE
    /\ installed = {1}
    /\ cpc = [c \in Callers |-> "idle"]
    /\ cop = [c \in Callers |-> "none"]
    /\ awaiting = [c \in Callers |-> 0]
    /\ cres = [c \in Callers |-> Ok(1)]
    /\ seen = [c \in Callers |-> 0]
    /\ task = [s \in Subs |-> "Running"]
    /\ kind \in [Subs -> {"sync", "async"}]
    /\ emitted = [s \in Subs |-> <<>>]
    /\ ntaken = [s \in Subs |-> 0]
    /\ sclosed = [s \in Subs |-> FALSE]
    /\ calls = [s \in Subs |-> <<>>]
    /\ pending = [s \in Subs |-> {}]
    /\ ran = [s \in Subs |-> <<>>]
    /\ sender = [s \in Subs |-> TRUE]
    /\ signal = [s \in Subs |-> FALSE]
    /\ sends = [s \in Subs |-> 0]
    /\ guard = [s \in Subs |-> "free"]
    /\ panicked = [s \in Subs |-> FALSE]
    /\ cargs = [c \in Callers |-> NoArgs]
    /\ ninv = [c \in Callers |-> 1]
    /\ cctx = [c \in Callers |-> "none"]
    /\ bres = [c \in Callers |-> NoAnswer]
    /\ ret = [c \in Callers |-> OkHandle]

\* The subscription engine from there on.
SpecSub == InitSub /\ [][NextSub]_vars

\* ------------------------------------------------------------- liveness
\* One poll of the background task by the runtime, whichever branch is ready.
TaskStep(s) == TaskDeliver(s) \/ TaskStreamEnd(s) \/ TaskCancel(s)

\* The history of a subscription (what was emitted, taken, called and run)
\* is only kept for MaxEmit items. Once everything emitted was taken and
\* every delivery ran, the history is dropped and recording starts over, so
\* that a stream can go on emitting for ever. No state of the program
\* changes: the stream's queue and the set of detached deliveries are empty.
Forget(s) ==
    /\ LoopRunning(s)
    /\ emitted[s] # <<>>
    /\ ntaken[s] = Len(emitted[s])
    /\ pending[s] = {}
    /\ emitted' = [emitted EXCEPT ![s] = <<>>]
    /\ ntaken' = [ntaken EXCEPT ![s] = 0]
    /\ calls' = [calls EXCEPT ![s] = <<>>]
    /\ ran' = [ran EXCEPT ![s] = <<>>]
    /\ UNCHANGED <<connVars, callVars, task, kind, sclosed, pending, hdlVars, cmdVars>>

NextLive ==
    \/ NextSub
    \/ Shutdown
    \/ \E s \in Subs : HandleDrop(s)
    \/ \E s \in Subs : Forget(s)

\* The state right after the first subscribe() call returned its handle.
InitLive ==
    /\ cell = 1
    /\ initer = 0
    /\ builds = [b \in Builds |-> IF b = 1 THEN [st |-> "ok", by |-> 1] ELSE NoBuild]
    /\ rtAlive = TRUE
    /\ installed = {1}
    /\ cpc = [c \in Callers |-> "idle"]
    /\ cop = [c \in Callers |-> "none"]
    /\ awaiting = [c \in Callers |-> 0]
    /\ cres = [c \in Callers |-> IF c = 1 THEN Ok(1) ELSE NoResult]
    /\ seen = [c \in Callers |-> 0]
    /\ task = [s \in Subs |-> IF s = 1 THEN "Running" ELSE "None"]
    /\ \E k \in {"sync", "async"} : kind = [s \in Subs |-> IF s = 1 THEN k ELSE "none"]
    /\ emitted = [s \in Subs |-> <<>>]
    /\ ntaken = [s \in Subs |-> 0]
    /\ sclosed = [s \in Subs |-> FALSE]
    /\ calls = [s \in Subs |-> <<>>]
    /\ pending = [s \in Subs |-> {}]
    /\ ran = [s \in Subs |-> <<>>]
    /\ sender = [s \in Subs |-> s = 1]
    /\ signal = [s \in Subs |-> FALSE]
    /\ sends = [s \in Subs |-> 0]
    /\ guard = [s \in Subs |-> "free"]
    /\ panicked = [s \in Subs |-> FALSE]
    /\ cargs = [c \in Callers |-> NoArgs]
    /\ ninv = [c \in Callers |-> IF c = 1 THEN 1 ELSE 0]
    /\ cctx = [c \in Callers |-> "none"]
    /\ bres = [c \in Callers |-> NoAnswer]
    /\ ret = [c \in Callers |-> IF c = 1 THEN OkHandle ELSE NoRet]

\* The runtime polls a task that is ready, runs a spawned delivery, and a
\* thread inside cancel() goes on; the backend, the callers of cancel() and
\* the owner of the client are under no obligation.
Fairness ==
    /\ \A s \in Subs : WF_vars(TaskStep(s))
    /\ \A s \in Subs : WF_vars(CancelSend(s))
    /\ \A s \in Subs : WF_vars(\E i \in 1..MaxEmit : DeliveryRun(s, i))

LiveSpec == InitLive /\ [][NextLive]_vars /\ Fairness

\* ================================================================ claims
\* ----------------------------------------------------------------- C1
\* C1: for one client instance, however many connected_client() callers
\* race, at most one connection is ever installed in the cell, an installed
\* connection is never replaced or reset, and every call that returned
\* success returned the installed handle.
C1_SingleConnection ==
    /\ Cardinality(installed) <= 1
    /\ installed = (IF cell = 0 THEN {} ELSE {cell})
    /\ \A c \in Callers : cres[c].r = "Ok" => (cell # 0 /\ cres[c].b = cell)

\* Two callers hold the same handle after more than one build was spawned.
C1_Witness ==
    \E c1, c2 \in Callers :
        /\ c1 # c2
        /\ cres[c1] = Ok(cell) /\ cres[c2] = Ok(cell)
        /\ NumSpawned >= 2

C3_NoPoison ==
    /\ cell = 0 =>
          \/ /\ initer = 0
             /\ NumSpawned < MaxBuilds =>
                   \A c \in Callers : InGet(c) => ENABLED StartBuild(c)
          \/ /\ initer # 0
             /\ cpc[initer] = "building"
             /\ builds[awaiting[initer]].st \in {"running", "ok", "err"}
    /\ cell # 0 => initer = 0
    /\ \A c \in Callers : cres[c].r = "Ok" => cres[c].b = cell

\* A build failed, a later build succeeded, and a call returned its handle.
C3_Witness ==
    \E b \in Builds, c \in Callers :
        /\ builds[b].st = "err"
        /\ cell > b
        /\ cres[c] = Ok(cell)

\* ----------------------------------------------------------------- C4
\* C4: over any number of cancel() calls on one handle, in any interleaving,
\* the signal is sent at most once: the sender is in exactly one place (the
\* handle's slot, the hands of the one call that took it, or consumed by the
\* one send), so every other call finds the slot empty.
C4_SendAtMostOnce ==
    \A s \in Subs :
        /\ sends[s] <= 1
        /\ kind[s] # "none" =>
              sends[s] + (IF guard[s] = "some" THEN 1 ELSE 0)
                       + (IF sender[s] THEN 1 ELSE 0) = 1

\* A later call holds the guard and found the slot empty after the send.
C4_Witness ==
    \E s \in Subs : sends[s] = 1 /\ guard[s] = "none"

\* ----------------------------------------------------------------- C5
\* C5 as stated: no cancel() call ever panics, whatever the state of the
\* subscription's background task when it is made.
C5_CancelNeverPanics ==
    \A s \in Subs : ~panicked[s]

\* ----------------------------------------------------------------- C6
\* C6 as stated: once the task of a subscription is Canceled, no further
\* on_update/on_error call is made and no further callback runs, for either
\* subscriber variant.
C6_NothingAfterCanceled ==
    [][\A s \in Subs :
          task[s] = "Canceled" => (calls'[s] = calls[s] /\ ran'[s] = ran[s])]_vars

\* C6 amended: once the task is Canceled, the loop makes no further
\* on_update/on_error call; a synchronous subscriber sees no further
\* callback; an asynchronous subscriber can only still see the callbacks of
\* deliveries that were dispatched before the signal was observed, each once.
C6_NoCallAfterCanceled ==
    [][\A s \in Subs :
          task[s] = "Canceled" =>
              /\ calls'[s] = calls[s]
              /\ pending'[s] \subseteq pending[s]
              /\ kind[s] = "sync" => ran'[s] = ran[s]
              /\ kind[s] = "async" =>
                    \/ ran'[s] = ran[s] /\ pending'[s] = pending[s]
                    \/ \E i \in pending[s] :
                          /\ ran'[s] = Append(ran[s], calls[s][i])
                          /\ pending'[s] = pending[s] \ {i}]_vars

\* A Canceled asynchronous subscription with a delivery still to run.
C6_Witness ==
    \E s \in Subs :
        task[s] = "Canceled" /\ kind[s] = "async" /\ pending[s] # {}

\* ----------------------------------------------------------------- C7
\* The subscriber call that the item of a stream stands for.
CallMatches(item, call) ==
    \/ /\ item.t = "Value"
       /\ call = [op |-> "on_update", msg |-> 0, val |-> << <<"json", item.d>> >>]
    \/ /\ item.t = "ErrorMessage"
       /\ call = [op |-> "on_error", msg |-> item.m, val |-> <<>>]
    \/ /\ item.t = "ConvexError"
       /\ call = [op |-> "on_error", msg |-> item.m, val |-> << <<"json", item.d>> >>]

\* C7: with a synchronous subscriber the callbacks that ran are, call for
\* item, a prefix of what the stream emitted, in emission order: one call
\* per item taken, none skipped, repeated or reordered.
C7_SyncInOrder ==
    \A s \in Subs :
        kind[s] = "sync" =>
            /\ Len(ran[s]) = ntaken[s]
            /\ ntaken[s] <= Len(emitted[s])
            /\ calls[s] = ran[s]
            /\ \A i \in 1..Len(ran[s]) : CallMatches(emitted[s][i], ran[s][i])

\* A synchronous subscriber received two items, an error among them.
C7_Witness ==
    \E s \in Subs :
        /\ kind[s] = "sync"
        /\ Len(ran[s]) >= 2
        /\ ran[s][1].op # ran[s][2].op

\* ----------------------------------------------------------------- C9
\* C9: an application error or server error item never ends a running
\* subscription: taking one makes exactly one on_error call (with the JSON
\* payload for an application error, with none for a server error) and
\* leaves the task Running.
C9_ErrorsKeepRunning ==
    [][\A s \in Subs :
          (ntaken'[s] = ntaken[s] + 1
             /\ emitted[s][ntaken[s] + 1].t \in {"ErrorMessage", "ConvexError"}) =>
              LET item == emitted[s][ntaken[s] + 1] IN
              /\ task'[s] = "Running"
              /\ Len(calls'[s]) = Len(calls[s]) + 1
              /\ SubSeq(calls'[s], 1, Len(calls[s])) = calls[s]
              /\ calls'[s][Len(calls'[s])].op = "on_error"
              /\ calls'[s][Len(calls'[s])].msg = item.m
              /\ calls'[s][Len(calls'[s])].val =
                    (IF item.t = "ErrorMessage" THEN <<>>
                     ELSE << <<"json", item.d>> >>)]_vars

\* After an error item the task went on and delivered a later item.
C9_Witness ==
    \E s \in Subs :
        /\ Len(calls[s]) >= 2
        /\ emitted[s][1].t \in {"ErrorMessage", "ConvexError"}
        /\ task[s] = "Running"

\* ---------------------------------------------------------------- C10
\* C10: when the stream of a running subscription has ended (everything it
\* emitted was taken) and no cancellation was signalled, the step that ends
\* the task puts it in the Fatal state, not Canceled, makes no subscriber
\* call, and changes neither another subscription nor the connection.
C10_StreamEndFatal ==
    [][\A s \in Subs :
          (/\ task[s] = "Running" /\ sclosed[s] /\ ntaken[s] = Len(emitted[s])
           /\ ~signal[s]
           /\ task'[s] # "Running" /\ rtAlive') =>
              /\ task'[s] = "Fatal"
              /\ calls' = calls /\ ran' = ran /\ pending' = pending
              /\ \A o \in Subs \ {s} : task'[o] = task[o]
              /\ cell' = cell /\ rtAlive' = rtAlive]_vars

\* One subscription died of a closed stream while another is still running.
C10_Witness ==
    \E s, o \in Subs :
        /\ task[s] = "Fatal" /\ ~signal[s] /\ calls[s] # <<>>
        /\ task[o] = "Running"
        /\ cell # 0

\* ----------------------------------------------------------------- C8
\* C8 as stated, read in its weakest form: once cancel() has sent the
\* signal, the background task eventually stops running, whatever the stream
\* does afterwards.
C8_CancelTerminates ==
    \A s \in Subs : signal[s] ~> (task[s] # "Running")

\* C8 amended: once cancel() has sent the signal, the background task
\* eventually stops running, provided the stream from some point on has no
\* item ready (while an item is ready at every poll, select_biased! never
\* polls the cancellation branch).
C8_CancelTerminatesIfQuiet ==
    \A s \in Subs :
        (<>[](ntaken[s] = Len(emitted[s]))) => (signal[s] ~> (task[s] # "Running"))

\* The task observed the signal after it had delivered items.
C8_Witness ==
    \E s \in Subs : signal[s] /\ task[s] = "Canceled" /\ ntaken[s] >= 1

\* ---------------------------------------------------------------- C11
\* The argument mappings of which every value is the JSON text of a Convex
\* value.
ArgsDecode(a) == \A k \in DOMAIN a : a[k] \in {"1", "\"x\""}

\* C11: while a query, mutation, action or subscribe call carries an
\* argument mapping with a value that does not decode, its backend verb is
\* not invoked: the count of invocations stays 0, no verb future is in
\* flight, no subscription task appears, and the step that takes the call
\* past connected_client() ends it with a failure.
C11_NoVerbOnBadArgs ==
    [][\A c \in Callers :
          (cop[c] \in {"query", "mutation", "action", "subscribe"}
             /\ ~ArgsDecode(cargs[c])) =>
              /\ ninv[c] = 0 /\ ninv'[c] = 0
              /\ cpc'[c] # "inflight" /\ cctx'[c] = "none"
              /\ task' = task /\ sender' = sender
              /\ (cpc[c] = "connected" /\ cpc'[c] # "connected") =>
                    (cpc'[c] = "idle" /\ ret'[c].k \in {"Panic", "InternalError"})]_vars

\* A call that obtained the connection ended in a failure without having
\* invoked its verb.
C11_Witness ==
    \E c \in Callers :
        /\ cres[c].r = "Ok" /\ cpc[c] = "idle"
        /\ ninv[c] = 0
        /\ ret[c].k \in {"Panic", "InternalError"}

\* ---------------------------------------------------------------- C12
\* C12 as stated: the step that ends a call on an argument value that does
\* not decode returns InternalError to the caller, for query, mutation,
\* action and subscribe alike; none of them panics in the caller.
C12_ArgFailureIsInternalError ==
    [][\A c \in Callers :
          (/\ cop[c] \in {"query", "mutation", "action", "subscribe"}
           /\ ~ArgsDecode(cargs[c])
           /\ cpc[c] = "connected" /\ cpc'[c] = "idle") =>
              ret'[c] = [k |-> "InternalError", msg |-> 0, data |-> <<>>]]_vars

\* ---------------------------------------------------------------- C13
\* The caller-visible result a backend FunctionResult stands for.
ResultMatches(result, r) ==
    \/ /\ result.t = "Value"
       /\ r = [k |-> "Ok", msg |-> 0, data |-> << <<"json", result.d>> >>]
    \/ /\ result.t = "ConvexError"
       /\ r = [k |-> "ConvexError", msg |-> 0, data |-> << <<"json", result.d>> >>]
    \/ /\ result.t = "ErrorMessage"
       /\ r = [k |-> "ServerError", msg |-> result.m, data |-> <<>>]

\* C13: the step in which a query, mutation or action call receives a
\* FunctionResult from the backend returns, for each of the three verbs
\* alike, the result of the same kind: Value as success with the encoded
\* value, ConvexError as ConvexError with exactly the encoded payload,
\* ErrorMessage as ServerError with exactly the message and no payload.
C13_ResultMapping ==
    [][\A c \in Callers, op \in {"query", "mutation", "action"} :
          (cop[c] = op /\ cpc[c] = "inflight" /\ bres'[c].a = "ok") =>
              /\ cpc'[c] = "idle"
              /\ ResultMatches(bres'[c].v, ret'[c])]_vars

\* A call returned the application error of the backend with its payload.
C13_Witness ==
    \E c \in Callers :
        /\ bres[c] = [a |-> "ok", v |-> [t |-> "ConvexError", m |-> 3, d |-> 4]]
        /\ ret[c] = [k |-> "ConvexError", msg |-> 0, data |-> << <<"json", 4>> >>]

\* ---------------------------------------------------------------- C14
\* C14: one call invokes its backend verb at most once: the count of
\* invocations of a call never exceeds 1, is 1 while the verb is in flight
\* and stays 1 whatever the backend answered, a failure included.
C14_AtMostOneInvocation ==
    \A c \in Callers :
        /\ ninv[c] <= 1
        /\ cpc[c] = "inflight" => (ninv[c] = 1 /\ cop[c] \in {"query", "mutation", "action"})
        /\ bres[c].a # "none" => (ninv[c] = 1 /\ cpc[c] = "idle")

\* A call that was parked on a failed build, connected by a later one,
\* invoked its verb and got a failure: it returned InternalError after one
\* invocation.
C14_Witness ==
    \E c \in Callers :
        /\ seen[c] # 0
        /\ bres[c].a = "err"
        /\ ret[c].k = "InternalError"
        /\ ninv[c] = 1

\* ---------------------------------------------------------------- C15
\* C15: a subscribe() call that ends in InternalError (the connection could
\* not be obtained, or the backend subscription could not be opened) leaves
\* every subscription as it was: no task, no handle, no subscriber call. A
\* subscription without a task never has a subscriber call. And a running
\* subscription makes its calls only for the items of its stream, each call
\* the one its item stands for, so no on_error carries anything but an
\* error result of the backend.
C15_InternalErrorOnlyAtSubscribe ==
    [][/\ \A c \in Callers :
             (cop[c] = "subscribe" /\ cpc'[c] = "idle"
                /\ ret'[c].k = "InternalError") =>
                 /\ task' = task /\ kind' = kind /\ sender' = sender
                 /\ calls' = calls /\ pending' = pending /\ ran' = ran
       /\ \A s \in Subs :
             /\ task'[s] = "None" =>
                   (calls'[s] = <<>> /\ pending'[s] = {} /\ ran'[s] = <<>>
                      /\ ~sender'[s])
             /\ \A i \in 1..Len(calls'[s]) :
                   /\ i <= Len(emitted'[s])
                   /\ CallMatches(emitted'[s][i], calls'[s][i])]_vars

\* A subscribe() call failed at the opening of the backend subscription
\* while an earlier subscription is running and has delivered an error of
\* the backend through on_error.
C15_Witness ==
    \E c \in Callers, s, o \in Subs :
        /\ ret[c].k = "InternalError" /\ cres[c].r = "Ok"
        /\ task[s] = "Running" /\ calls[s] # <<>> /\ calls[s][1].op = "on_error"
        /\ task[o] = "None"

\* ---------------------------------------------------------------- C16
\* C16: while the task runs with both the cancellation signal and a stream
\* item ready, the task is not Canceled by the next step, and a step that
\* takes from the stream takes exactly that item and makes its call; the
\* task becomes Canceled only at a poll that finds the signal and no item
\* ready; once Canceled it takes nothing more. So what is delivered after
\* cancel() are items that were ready before the signal was observed.
C16_ItemBeforeCancel ==
    [][\A s \in Subs :
          /\ (signal[s] /\ task[s] = "Running" /\ ntaken[s] < Len(emitted[s])
                 /\ rtAlive') =>
                /\ task'[s] = "Running"
                /\ ntaken'[s] # ntaken[s] =>
                      /\ ntaken'[s] = ntaken[s] + 1
                      /\ Len(calls'[s]) = Len(calls[s]) + 1
                      /\ CallMatches(emitted[s][ntaken[s] + 1],
                                     calls'[s][Len(calls'[s])])
          /\ (task[s] = "Running" /\ task'[s] = "Canceled") =>
                /\ signal[s]
                /\ ntaken[s] = Len(emitted[s])
                /\ calls'[s] = calls[s] /\ ntaken'[s] = ntaken[s]
          /\ task[s] = "Canceled" =>
                (ntaken'[s] = ntaken[s] /\ calls'[s] = calls[s])]_vars

\* A poll with the signal and an item both ready: the runtime can run the
\* stream branch and cannot run the cancellation branch.
C16_Witness ==
    \E s \in Subs :
        /\ signal[s] /\ task[s] = "Running"
        /\ ntaken[s] < Len(emitted[s])
        /\ ENABLED TaskDeliver(s)
        /\ ~ENABLED TaskCancel(s)

\* ---------------------------------------------------------------- C17
\* C17: with an asynchronous subscriber the loop makes one call per item
\* taken, in the order of the stream, each call the one its item stands
\* for; every call is either still pending as detached work or has run,
\* never both; and the loop never waits for them: whenever an item is ready
\* the task can take it, whatever deliveries are pending. (That deliveries
\* complete out of order is the reachable state C17_Witness.)
C17_AsyncDetached ==
    \A s \in Subs :
        kind[s] = "async" =>
            /\ Len(calls[s]) = ntaken[s]
            /\ ntaken[s] <= Len(emitted[s])
            /\ \A i \in 1..Len(calls[s]) : CallMatches(emitted[s][i], calls[s][i])
            /\ pending[s] \subseteq 1..Len(calls[s])
            /\ Len(ran[s]) + Cardinality(pending[s]) = Len(calls[s])
            /\ (rtAlive /\ task[s] = "Running" /\ ntaken[s] < Len(emitted[s])) =>
                  ENABLED TaskDeliver(s)

\* Item 2 was taken while the delivery of item 1 was pending, and the two
\* callbacks ran in the order 2, 1.
C17_Witness ==
    \E s \in Subs :
        /\ kind[s] = "async"
        /\ Len(ran[s]) = 2
        /\ ran[s][1] = calls[s][2] /\ ran[s][2] = calls[s][1]
        /\ calls[s][1] # calls[s][2]

\* ---------------------------------------------------------------- C19
\* C19 as stated, its last clause: a subscription only delivers while its
\* handle is alive, so once the handle was destroyed the loop makes no
\* further subscriber call.
C19_NoCallAfterDrop ==
    [][\A s \in Subs : guard[s] = "dropped" => calls'[s] = calls[s]]_vars

\* C19 amended: once the handle was destroyed, the background task
\* eventually stops running, as for an explicit cancel: provided the stream
\* from some point on has no item ready. Items that are ready are still
\* taken and delivered after the drop.
C19_DropTerminatesIfQuiet ==
    \A s \in Subs :
        (<>[](ntaken[s] = Len(emitted[s]))) =>
            (guard[s] = "dropped" ~> (task[s] # "Running"))

\* The task of a subscription whose handle was destroyed without any
\* cancel() left its loop through the cancellation branch, after it had
\* delivered items.
C19_Witness ==
    \E s \in Subs :
        /\ guard[s] = "dropped" /\ sends[s] = 0
        /\ task[s] = "Canceled" /\ ntaken[s] >= 1

\* ---------------------------------------------------------------- C18
\* C18 as stated: the future of every backend verb this layer invokes is
\* polled on the client's runtime, never in the task of the caller.
C18_AllOnRuntime ==
    \A c \in Callers : cctx[c] # "caller"

\* ---------------------------------------------------------------- C20
\* C20 as stated: at most one build is running at any time, and the
\* connection of every build that completed is either in the cell or about
\* to be stored by the initialiser that awaits it; for every interleaving
\* of callers, abandoned calls included.
C20_OneBuildInFlight ==
    /\ Cardinality({b \in Builds : builds[b].st = "running"}) <= 1
    /\ \A b \in Builds :
          builds[b].st = "ok" =>
              (b \in installed \/ \E c \in Callers : awaiting[c] = b)

==========================================================================
